---- MODULE Spec2Model ----
\* Model of examples/cpal-rotating-noise.rs: the setup performed by main and
\* run, the output callback closure handed to build_output_stream, and
\* write_data.  Real numbers (f32) are fixed-point integers with Scale units
\* per 1.0; timestamps (cpal::StreamInstant) are integer ticks.
EXTENDS Integers, Sequences, FiniteSets

\* ---------------------------------------------------------------- bounds
MaxLen == 4          \* longest destination buffer handed to the callback
MaxTime == 4         \* latest playback timestamp, in ticks
MaxCallbacks == 2    \* callback invocations explored per stream
RngMod == 4          \* number of states of the noise generator

\* ------------------------------------------------------- number formats
Scale == 10000       \* fixed-point units per 1.0 of an f32
TicksPerSec == 2     \* StreamInstant ticks per second
PI == 31416          \* std::f32::consts::PI, in Scale units
rotation_hz == 5000  \* 0.5, in Scale units
Stale == -1          \* content of a destination slot the call has not written

TwoPi == 2 * PI
HalfPi == PI \div 2

FMul(a, b) == (a * b) \div Scale

Min(a, b) == IF a < b THEN a ELSE b

\* Maclaurin series evaluated term by term: term_k = term_(k-1) * y^2 / (d(d+1)),
\* d = first + 2(k-1), with alternating sign.
RECURSIVE Series(_, _, _, _, _)
Series(term, y2, d, neg, acc) ==
    IF term = 0 THEN acc
    ELSE LET next == FMul(term, y2) \div (d * (d + 1))
         IN  Series(next, y2, d + 2, ~neg, IF neg THEN acc - next ELSE acc + next)

CosQ(y) == Series(Scale, FMul(y, y), 1, TRUE, Scale)   \* y in [0, pi/2]
SinQ(y) == Series(y, FMul(y, y), 2, TRUE, y)           \* y in [0, pi/2]

\* f32::cos and f32::sin for a non-negative angle: reduce into the first
\* quadrant, then evaluate the series.
cos(r) ==
    LET a == r % TwoPi
        b == IF a > PI THEN TwoPi - a ELSE a
    IN  IF b > HalfPi THEN 0 - CosQ(PI - b) ELSE CosQ(b)

sin(r) ==
    LET a == r % TwoPi
    IN  IF a <= HalfPi THEN SinQ(a)
        ELSE IF a <= PI THEN SinQ(PI - a)
        ELSE IF a <= PI + HalfPi THEN 0 - SinQ(a - PI)
        ELSE 0 - SinQ(TwoPi - a)

\* ------------------------------------------------------ the environment
Formats == {"F32", "I16", "U16"}

\* What the default host offers: whether there is a default output device,
\* whether it reports a default output config, how many channels it has,
\* whether it can run at 44.1 KHz, its default sample format, and whether a
\* built stream can be started.
Devices ==
    [present : BOOLEAN, has_config : BOOLEAN, max_channels : 1..2,
     rate_44100 : BOOLEAN, format : Formats, plays : BOOLEAN]

VARIABLES
    phase,         \* "start", "setup_failed", "playing", "panicked", "stopped"
    device,        \* the default output device of the default host
    channels,      \* config.channels as seen by run (0 before run)
    sample_rate,   \* config.sample_rate as seen by run (0 before run)
    stream_start,  \* Option<StreamInstant>: <<>> is None, <<t>> is Some(t)
    rng,           \* state of the noise generator
    now,           \* info.timestamp().playback of the last invocation
    since_start,   \* Option<Duration> returned by duration_since
    secs,          \* since_start.as_secs_f32() of the last invocation
    x,             \* radians.cos() of the last invocation
    z,             \* radians.sin() of the last invocation
    noise,         \* the monophonic noise buffer of the last invocation
    data,          \* the destination buffer after the last invocation
    writes,        \* per slot of data: how many times the invocation wrote it
    callbacks,     \* number of invocations of the output callback
    draws,         \* number of rng.gen() calls over all invocations
    frames         \* number of whole frames written over all invocations

vars == <<phase, device, channels, sample_rate, stream_start, rng, now,
          since_start, secs, x, z, noise, data, writes, callbacks, draws, frames>>

Times == 0..MaxTime
Seeds == 0..(RngMod - 1)

\* ------------------------------------------------------------- helpers
\* Option::get_or_insert: the stored value, or v stored when there is none.
get_or_insert_relatch(opt, v) == v
get_or_insert(opt, v) == IF opt = <<>> THEN v ELSE opt[1]

\* StreamInstant::duration_since: None when self is earlier than the other.
duration_since_epoch(later, earlier) == <<later>>
duration_since(later, earlier) ==
    IF later < earlier THEN <<>> ELSE <<later - earlier>>

\* Duration::as_secs_f32.
as_secs_f32(d) == (d * Scale) \div TicksPerSec

\* secs * rotation_hz * 2.0 * PI, multiplied left to right.
radians_half_turn(s) == FMul(FMul(s, rotation_hz), PI)
radians(s) == FMul(FMul(FMul(s, rotation_hz), 2 * Scale), PI)

\* data.len() / channels.
frame_count_slots(len, ch) == len
frame_count(len, ch) == len \div ch

\* One rng.gen::<f32>(): the next generator state, and the sample in [0, 1).
gen(s) == (s + 3) % RngMod
sample_of(s) == (s * Scale) \div RngMod

\* (..frame_count).map(|_| rng.gen::<f32>()).collect(): n successive draws.
RECURSIVE map_gen(_, _)
map_gen(s, n) ==
    IF n = 0 THEN [noise |-> <<>>, rng |-> s]
    ELSE LET rest == map_gen(gen(s), n - 1)
         IN  [noise |-> <<sample_of(gen(s))>> \o rest.noise, rng |-> rest.rng]

collect_reseeded(s, n) == map_gen(0, n)
collect(s, n) == map_gen(s, n)

\* The sample source handed to write_data: the successive samples of the noise
\* buffer, then (when write_data asks for more than frame_count samples) a
\* value the source does not determine.
next_value(buf, tail) == buf \o <<tail>>

\* The values explored for that undetermined sample: the least and the
\* greatest f32 the generator yields.  A buffer of whole frames never asks
\* for it.
Tails(len, ch) ==
    IF ch = 0 \/ len % ch = 0 THEN {sample_of(0)}
    ELSE {sample_of(0), sample_of(RngMod - 1)}

\* cpal::Sample::from::<f32> into the stream's sample type.
from_f32(T, v) ==
    IF T = "F32" THEN v
    ELSE IF T = "I16" THEN (v * 32767) \div Scale
    ELSE ((v + Scale) * 65535 + Scale) \div (2 * Scale)

\* output.chunks_mut(channels): the slots of the k-th chunk; the last chunk
\* is shorter when the length is not a multiple of channels.
NumChunks(len, ch) == (len + ch - 1) \div ch
chunks_mut(len, ch, k) == ((k - 1) * ch + 1)..Min(k * ch, len)

\* for sample in frame.iter_mut() { *sample = value }
write_frame_first_only(st, idxs, ch, value) ==
    LET first == {i \in idxs : \A j \in idxs : i <= j}
    IN  [data   |-> [i \in DOMAIN st.data |-> IF i \in first THEN value ELSE st.data[i]],
         writes |-> [i \in DOMAIN st.writes |-> IF i \in first THEN st.writes[i] + 1 ELSE st.writes[i]],
         frames |-> IF Cardinality(idxs) = ch THEN st.frames + 1 ELSE st.frames]
write_frame_panned(st, idxs, ch, value) ==
    [data   |-> [i \in DOMAIN st.data |->
                    IF i \in idxs THEN (IF i % ch = 1 THEN value ELSE value \div 2)
                    ELSE st.data[i]],
     writes |-> [i \in DOMAIN st.writes |-> IF i \in idxs THEN st.writes[i] + 1 ELSE st.writes[i]],
     frames |-> IF Cardinality(idxs) = ch THEN st.frames + 1 ELSE st.frames]
write_frame(st, idxs, ch, value) ==
    [data   |-> [i \in DOMAIN st.data |-> IF i \in idxs THEN value ELSE st.data[i]],
     writes |-> [i \in DOMAIN st.writes |-> IF i \in idxs THEN st.writes[i] + 1 ELSE st.writes[i]],
     frames |-> IF Cardinality(idxs) = ch THEN st.frames + 1 ELSE st.frames]

\* for frame in output.chunks_mut(channels) { value = from(next_sample()); ... }
RECURSIVE write_loop(_, _, _, _, _)
write_loop(st, ch, T, samples, k) ==
    IF k > NumChunks(Len(st.data), ch) THEN st
    ELSE write_loop(write_frame(st, chunks_mut(Len(st.data), ch, k), ch,
                                from_f32(T, samples[k])),
                    ch, T, samples, k + 1)

write_data(output, ch, T, samples) ==
    write_loop([data |-> output, writes |-> [i \in DOMAIN output |-> 0], frames |-> 0],
               ch, T, samples, 1)

\* The destination buffer as the host hands it over.
Buffer(len) == [i \in 1..len |-> Stale]

\* device.build_output_stream(config, ..): the host rejects a config the
\* device cannot provide.
build_output_stream_unchecked(dev, ch, rate) == TRUE
build_output_stream(dev, ch, rate) ==
    /\ dev.max_channels >= ch
    /\ (rate = 44100 => dev.rate_44100)

\* ------------------------------------------------------------- actions
SetupFailed ==
    /\ phase' = "setup_failed"
    /\ UNCHANGED <<channels, sample_rate, stream_start, rng>>

\* run::<T>: read the config, create the generator, build and play the stream.
run(ch, rate) ==
    IF build_output_stream(device, ch, rate) /\ device.plays
    THEN /\ phase' = "playing"
         /\ channels' = ch
         /\ sample_rate' = rate
         /\ stream_start' = <<>>
         /\ rng' \in Seeds
    ELSE SetupFailed

\* main: find the device and its default config, force 2 channels at 44.1 KHz,
\* dispatch on the sample format.
main ==
    /\ phase = "start"
    /\ IF ~device.present THEN SetupFailed
       ELSE IF ~device.has_config THEN SetupFailed
       ELSE run(2, 44100)
    /\ UNCHANGED <<device, now, since_start, secs, x, z, noise, data, writes,
                   callbacks, draws, frames>>

\* The output callback closure, invoked by the host with a destination buffer
\* of len slots and the playback timestamp t.
Callback(len, t, tail) ==
    /\ phase = "playing"
    /\ callbacks < MaxCallbacks
    /\ LET start == get_or_insert(stream_start, t)
           since == duration_since(t, start)
       IN  /\ now' = t
           /\ stream_start' = <<start>>
           /\ since_start' = since
           /\ callbacks' = callbacks + 1
           /\ IF since = <<>>
              THEN \* unwrap() of None
                   /\ phase' = "panicked"
                   /\ data' = Buffer(len)
                   /\ writes' = [i \in 1..len |-> 0]
                   /\ noise' = <<>>
                   /\ UNCHANGED <<secs, x, z, rng, draws, frames>>
              ELSE LET s   == as_secs_f32(since[1])
                       rad == radians(s)
                       got == collect(rng, frame_count(len, channels))
                       out == write_data(Buffer(len), channels, device.format,
                                         next_value(got.noise, tail))
                   IN  /\ secs' = s
                       /\ x' = cos(rad)
                       /\ z' = sin(rad)
                       /\ noise' = got.noise
                       /\ rng' = got.rng
                       /\ draws' = draws + Len(got.noise)
                       /\ data' = out.data
                       /\ writes' = out.writes
                       /\ frames' = frames + out.frames
                       /\ UNCHANGED phase
    /\ UNCHANGED <<device, channels, sample_rate>>

\* run returns after the sleep and the stream is dropped.
Stop ==
    /\ phase = "playing"
    /\ phase' = "stopped"
    /\ UNCHANGED <<device, channels, sample_rate, stream_start, rng, now,
                   since_start, secs, x, z, noise, data, writes, callbacks,
                   draws, frames>>

Init ==
    /\ phase = "start"
    /\ device \in Devices
    /\ channels = 0
    /\ sample_rate = 0
    /\ stream_start = <<>>
    /\ rng = 0
    /\ now = 0
    /\ since_start = <<>>
    /\ secs = 0
    /\ x = 0
    /\ z = 0
    /\ noise = <<>>
    /\ data = <<>>
    /\ writes = <<>>
    /\ callbacks = 0
    /\ draws = 0
    /\ frames = 0

Next ==
    \/ main
    \/ \E len \in 0..MaxLen, t \in Times :
          \E tail \in Tails(len, channels) : Callback(len, t, tail)
    \/ Stop

Spec == Init /\ [][Next]_vars

\* ---------------------------------------------------------------- claims
\* The last invocation of the callback ran to its end.
LastOk == callbacks > 0 /\ phase \in {"playing", "stopped"}

\* The slots of data that lie in whole frames, and the ones after them.
WholeFrames == Len(data) \div channels
Trailing == (WholeFrames * channels + 1)..Len(data)

Near(a, b) == (a - b) \in -50..50

RECURSIVE Advance(_, _)
Advance(s, n) == IF n = 0 THEN s ELSE Advance(gen(s), n - 1)

\* C1: the origin is latched exactly once, by the first invocation, from that
\* invocation's timestamp; no later step changes it; every invocation takes
\* its elapsed time as (its timestamp - the origin), so the first one gets 0.
C1_OriginLatchedOnce ==
    /\ [][(stream_start = <<>> /\ stream_start' # <<>>)
            => /\ callbacks = 0 /\ callbacks' = 1
               /\ stream_start' = <<now'>>
               /\ since_start' = <<0>> /\ secs' = 0]_vars
    /\ [][stream_start # <<>> => stream_start' = stream_start]_vars
    /\ [][callbacks' = callbacks + 1
            => /\ stream_start' # <<>>
               /\ since_start' = IF now' >= stream_start'[1]
                                 THEN <<now' - stream_start'[1]>> ELSE <<>>
               /\ (phase' = "playing"
                     => secs' = ((now' - stream_start'[1]) * Scale) \div TicksPerSec)]_vars

C1_Witness ==
    /\ phase = "playing" /\ callbacks = 2
    /\ stream_start # <<>> /\ stream_start[1] > 0 /\ now > stream_start[1]
    /\ secs > 0

\* C2: the callback never panics: when the timestamp is earlier than the
\* origin it takes zero elapsed time and still writes the whole buffer.
C2_NeverPanics ==
    (callbacks > 0 /\ now < stream_start[1])
        => /\ phase # "panicked"
           /\ secs = 0
           /\ \A i \in 1..Len(data) : writes[i] >= 1

\* C3: after an invocation on a buffer whose length is not a multiple of the
\* channel count, the slots after the last whole frame are unwritten.
C3_TrailingUnwritten ==
    LastOk => \A i \in Trailing : writes[i] = 0 /\ data[i] = Stale

\* C4: on a buffer of frame_count * channels slots one invocation writes every
\* slot exactly once and nothing else, frame after frame, each frame's slots
\* holding that frame's sample.
C4_WholeBufferWrittenOnce ==
    (LastOk /\ Len(data) % channels = 0)
        => /\ Len(writes) = Len(data)
           /\ Len(noise) = WholeFrames
           /\ \A i \in 1..Len(data) : writes[i] = 1 /\ data[i] # Stale
           /\ \A f \in 1..WholeFrames : \A c \in 1..channels :
                  data[(f - 1) * channels + c] = from_f32(device.format, noise[f])

C4_Witness ==
    /\ LastOk /\ Len(data) = 4 /\ channels = 2
    /\ data[1] # data[3]

\* C5: the position is derived once per invocation, from that invocation's
\* elapsed time, and changes only when the callback is invoked.
C5_PositionPerInvocation ==
    /\ [](LastOk
            => /\ stream_start # <<>> /\ now >= stream_start[1]
               /\ x = cos(radians(as_secs_f32(now - stream_start[1])))
               /\ z = sin(radians(as_secs_f32(now - stream_start[1]))))
    /\ [][(x' # x \/ z' # z) => (callbacks' = callbacks + 1 /\ phase' = "playing")]_vars

C5_Witness ==
    /\ LastOk /\ callbacks = 2 /\ WholeFrames >= 2
    /\ stream_start[1] > 0 /\ now > stream_start[1] /\ x < 0

\* C6: the generator is created once, before the stream plays, and is then
\* changed only by the callback, which continues from the state the previous
\* invocation left.
C6_GeneratorPersists ==
    /\ [][callbacks' = callbacks => (phase = "start" \/ rng' = rng)]_vars
    /\ [][(callbacks' = callbacks + 1 /\ phase' = "playing")
            => rng' = Advance(rng, Len(data') \div channels)]_vars
    /\ [][(callbacks' = callbacks + 1 /\ phase' = "panicked") => rng' = rng]_vars

C6_Witness ==
    /\ LastOk /\ callbacks = 2
    /\ Len(noise) > 0 /\ draws > Len(noise)
    /\ rng # 0

C8_SetupFailureNoCallback ==
    /\ phase = "setup_failed"
         => callbacks = 0 /\ data = <<>> /\ stream_start = <<>>
    /\ (~device.present \/ device.max_channels < 2 \/ ~device.rate_44100)
         => phase \in {"start", "setup_failed"} /\ callbacks = 0

C8_Witness ==
    /\ phase = "setup_failed"
    /\ device.present /\ device.has_config /\ device.plays
    /\ device.max_channels = 1 /\ device.rate_44100

\* C9: with rotation_hz = 0.5 the position is (1, 0) at elapsed 0, about
\* (-1, 0) at elapsed 1 s and about (1, 0) again at elapsed 2 s.
C9_HalfTurnPerSecond ==
    LastOk
        => /\ (callbacks = 1 => secs = 0)
           /\ (secs = 0 => x = Scale /\ z = 0)
           /\ (secs = Scale => Near(x, 0 - Scale) /\ Near(z, 0))
           /\ (secs = 2 * Scale => Near(x, Scale) /\ Near(z, 0))

C9_Witness ==
    LastOk /\ secs = Scale /\ x < 0

====
